---- MODULE Spec2Model ----
(***************************************************************************)
(* Model of the Extraction Form Controller (src/src/App.tsx): the React    *)
(* component App with its five useState cells, the handlers                *)
(* handleInputChange, validateForm and handleSubmit, and the asynchronous  *)
(* continuation of handleSubmit (fetch, response.text(), JSON.parse, the   *)
(* URL regular expression, alert, finally).                                *)
(*                                                                         *)
(* Text is a sequence of one-character strings.  Three characters stand    *)
(* for longer literal texts of the source:                                 *)
(*   "P"  the literal  https://docs.google.com/spreadsheets/d/             *)
(*   "K"  the literal  Set Webhook Information                             *)
(*   "L"  the literal  length                                              *)
(* and "n" stands for the JSON literal null.  The bodies the model feeds   *)
(* to the handler never place "K", "L" or "n" directly after "P".          *)
(* Not modelled: JSON string escapes, the literals true/false, fractions   *)
(* and exponents, the timestamp of the request body, native constraint     *)
(* validation of the number input (min/max), and the renders between the   *)
(* state setters of one continuation (one continuation is one step).       *)
(***************************************************************************)
EXTENDS Integers, Sequences, FiniteSets, TLC

VARIABLES formData, errors, isSubmitting, googleSheetUrl, showSuccess, requests

vars == <<formData, errors, isSubmitting, googleSheetUrl, showSuccess, requests>>

(***************************************************************************)
(* Bounds of the model.                                                    *)
(***************************************************************************)
MaxTextLen == 2

MaxInflight == 2

(***************************************************************************)
(* Program constants.                                                      *)
(***************************************************************************)
MinPlaces == 1

MaxPlaces == 100

DefaultPlaces == 10

Fields == {"searchTerms", "location", "numberOfPlaces"}

Undefined == "undefined"

EmptyText == <<>>

SearchTermsMessage == "Search terms are required"

LocationMessage == "Location is required"

NumberMessage == "Number must be between 1 and 100"

(***************************************************************************)
(* Texts.                                                                  *)
(***************************************************************************)
SeqsUpTo(S, n) == UNION {[1..k -> S] : k \in 0..n}

Whitespace == {" "}

RECURSIVE TrimStart(_)
TrimStart(s) ==
  IF s # <<>> /\ Head(s) \in Whitespace THEN TrimStart(Tail(s)) ELSE s

RECURSIVE TrimEnd(_)
TrimEnd(s) ==
  IF s # <<>> /\ s[Len(s)] \in Whitespace
  THEN TrimEnd(SubSeq(s, 1, Len(s) - 1))
  ELSE s

Trim(s) == TrimEnd(TrimStart(s))

Digits == {"0", "1", "2", "3", "4", "5", "6", "7", "8", "9"}

DigitValue(c) ==
  CASE c = "0" -> 0 [] c = "1" -> 1 [] c = "2" -> 2 [] c = "3" -> 3
    [] c = "4" -> 4 [] c = "5" -> 5 [] c = "6" -> 6 [] c = "7" -> 7
    [] c = "8" -> 8 [] c = "9" -> 9

RECURSIVE DigitRunEnd(_, _)
DigitRunEnd(s, i) ==
  IF i <= Len(s) /\ s[i] \in Digits THEN DigitRunEnd(s, i + 1) ELSE i

RECURSIVE DecimalValue(_)
DecimalValue(ds) ==
  IF ds = <<>> THEN 0
  ELSE 10 * DecimalValue(SubSeq(ds, 1, Len(ds) - 1)) + DigitValue(ds[Len(ds)])

(* parseInt(text) || 0 of the number input's onChange: an optional sign,   *)
(* the leading run of digits; NaN (no digit) and 0 both give 0.            *)
ParseIntOrZero(text) ==
  LET t == TrimStart(text)
      neg == t # <<>> /\ Head(t) = "-"
      body == IF t # <<>> /\ Head(t) \in {"-", "+"} THEN Tail(t) ELSE t
      e == DigitRunEnd(body, 1)
      v == DecimalValue(SubSeq(body, 1, e - 1))
  IN IF e = 1 THEN 0 ELSE IF neg THEN 0 - v ELSE v

(***************************************************************************)
(* The regular expression                                                  *)
(*   /https:\/\/docs\.google\.com\/spreadsheets\/d\/[a-zA-Z0-9-_]+/        *)
(* String.prototype.match returns the leftmost match, the id run greedy.   *)
(***************************************************************************)
IdChars == Digits \cup {"A", "B", "a", "-", "_"}

UrlPrefix == "P"

RECURSIVE IdRunEnd(_, _)
IdRunEnd(s, i) ==
  IF i <= Len(s) /\ s[i] \in IdChars THEN IdRunEnd(s, i + 1) ELSE i

MatchStarts(s) ==
  {i \in 1..Len(s) : s[i] = UrlPrefix /\ i < Len(s) /\ s[i + 1] \in IdChars}

NoMatch == [found |-> FALSE, text |-> <<>>]

UrlMatch(s) ==
  IF MatchStarts(s) = {} THEN NoMatch
  ELSE LET i == CHOOSE k \in MatchStarts(s) : \A j \in MatchStarts(s) : k <= j
       IN [found |-> TRUE, text |-> SubSeq(s, i, IdRunEnd(s, i + 1) - 1)]

(***************************************************************************)
(* JSON.parse on the modelled subset: null, non-negative integers,         *)
(* strings without escapes, arrays, objects.  A value is a record          *)
(*   [t, n, s, keys, items]                                                *)
(* t the type, n the number, s the string, items the elements (array) or   *)
(* member values (object), keys the member names (object).                 *)
(***************************************************************************)
JUndefined == [t |-> "undefined", n |-> 0, s |-> <<>>, keys |-> <<>>, items |-> <<>>]

JNull == [t |-> "null", n |-> 0, s |-> <<>>, keys |-> <<>>, items |-> <<>>]

JNum(k) == [t |-> "num", n |-> k, s |-> <<>>, keys |-> <<>>, items |-> <<>>]

JStr(str) == [t |-> "str", n |-> 0, s |-> str, keys |-> <<>>, items |-> <<>>]

JArr(xs) == [t |-> "arr", n |-> 0, s |-> <<>>, keys |-> <<>>, items |-> xs]

JObj(ks, xs) == [t |-> "obj", n |-> 0, s |-> <<>>, keys |-> ks, items |-> xs]

ParseFail == [ok |-> FALSE, val |-> JUndefined, nxt |-> 0]

Parsed(v, i) == [ok |-> TRUE, val |-> v, nxt |-> i]

Quote == "\""

RECURSIVE SkipWs(_, _)
SkipWs(s, i) ==
  IF i <= Len(s) /\ s[i] \in Whitespace THEN SkipWs(s, i + 1) ELSE i

RECURSIVE QuoteAt(_, _)
QuoteAt(s, i) ==
  IF i > Len(s) THEN 0 ELSE IF s[i] = Quote THEN i ELSE QuoteAt(s, i + 1)

ParseString(s, i) ==
  IF i > Len(s) \/ s[i] # Quote THEN ParseFail
  ELSE LET j == QuoteAt(s, i + 1)
       IN IF j = 0 THEN ParseFail
          ELSE Parsed(JStr(SubSeq(s, i + 1, j - 1)), j + 1)

ParseNumber(s, i) ==
  IF s[i] = "0" THEN Parsed(JNum(0), i + 1)
  ELSE LET e == DigitRunEnd(s, i)
       IN Parsed(JNum(DecimalValue(SubSeq(s, i, e - 1))), e)

RECURSIVE ParseValue(_, _)
RECURSIVE ParseElements(_, _, _)
RECURSIVE ParseMembers(_, _, _, _)

ParseValue(s, i0) ==
  LET i == SkipWs(s, i0)
  IN IF i > Len(s) THEN ParseFail
     ELSE IF s[i] = "n" THEN Parsed(JNull, i + 1)
     ELSE IF s[i] = Quote THEN ParseString(s, i)
     ELSE IF s[i] \in Digits THEN ParseNumber(s, i)
     ELSE IF s[i] = "["
       THEN LET j == SkipWs(s, i + 1)
            IN IF j <= Len(s) /\ s[j] = "]" THEN Parsed(JArr(<<>>), j + 1)
               ELSE ParseElements(s, i + 1, <<>>)
     ELSE IF s[i] = "{"
       THEN LET j == SkipWs(s, i + 1)
            IN IF j <= Len(s) /\ s[j] = "}" THEN Parsed(JObj(<<>>, <<>>), j + 1)
               ELSE ParseMembers(s, i + 1, <<>>, <<>>)
     ELSE ParseFail

ParseElements(s, i, acc) ==
  LET r == ParseValue(s, i)
  IN IF ~r.ok THEN ParseFail
     ELSE LET j == SkipWs(s, r.nxt)
          IN IF j > Len(s) THEN ParseFail
             ELSE IF s[j] = "," THEN ParseElements(s, j + 1, Append(acc, r.val))
             ELSE IF s[j] = "]" THEN Parsed(JArr(Append(acc, r.val)), j + 1)
             ELSE ParseFail

ParseMembers(s, i, ks, xs) ==
  LET k == ParseString(s, SkipWs(s, i))
  IN IF ~k.ok THEN ParseFail
     ELSE LET c == SkipWs(s, k.nxt)
          IN IF c > Len(s) \/ s[c] # ":" THEN ParseFail
             ELSE LET r == ParseValue(s, c + 1)
                  IN IF ~r.ok THEN ParseFail
                     ELSE LET j == SkipWs(s, r.nxt)
                          IN IF j > Len(s) THEN ParseFail
                             ELSE IF s[j] = ","
                               THEN ParseMembers(s, j + 1, Append(ks, k.val.s),
                                                 Append(xs, r.val))
                             ELSE IF s[j] = "}"
                               THEN Parsed(JObj(Append(ks, k.val.s),
                                                Append(xs, r.val)), j + 1)
                             ELSE ParseFail

(* JSON.parse(text): one value, then only whitespace; otherwise it throws. *)
JsonParse(text) ==
  LET r == ParseValue(text, 1)
  IN IF r.ok /\ SkipWs(text, r.nxt) = Len(text) + 1 THEN r ELSE ParseFail

(***************************************************************************)
(* JavaScript semantics of the test of line 93,                            *)
(*   responseData && responseData.length > 0                               *)
(*                && responseData[0]['Set Webhook Information']            *)
(* on the values JSON.parse can return.                                    *)
(***************************************************************************)
LengthKey == <<"L">>

ZeroKey == <<"0">>

WebhookKey == <<"K">>

Truthy(v) ==
  CASE v.t = "undefined" -> FALSE
    [] v.t = "null" -> FALSE
    [] v.t = "num" -> v.n # 0
    [] v.t = "str" -> v.s # <<>>
    [] OTHER -> TRUE

(* x > 0 for a string x: ToNumber of the trimmed text.                     *)
TextGreaterThanZero(str) ==
  LET t == Trim(str)
  IN t # <<>> /\ (\A i \in 1..Len(t) : t[i] \in Digits) /\ DecimalValue(t) > 0

(* x > 0: ToNumber(ToPrimitive(x)) > 0; an array converts through join.    *)
RECURSIVE GreaterThanZero(_)
GreaterThanZero(v) ==
  CASE v.t = "num" -> v.n > 0
    [] v.t = "str" -> TextGreaterThanZero(v.s)
    [] v.t = "arr" -> Len(v.items) = 1 /\ v.items[1].t \in {"num", "str", "arr"}
                      /\ GreaterThanZero(v.items[1])
    [] OTHER -> FALSE

(* x[key] for x neither null nor undefined; the last of duplicate member   *)
(* names wins.                                                             *)
Member(v, key) ==
  CASE v.t = "obj" ->
         LET at == {i \in 1..Len(v.keys) : v.keys[i] = key}
         IN IF at = {} THEN JUndefined
            ELSE v.items[CHOOSE i \in at : \A j \in at : j <= i]
    [] v.t = "arr" ->
         IF key = LengthKey THEN JNum(Len(v.items))
         ELSE IF key = ZeroKey /\ v.items # <<>> THEN v.items[1]
         ELSE JUndefined
    [] v.t = "str" ->
         IF key = LengthKey THEN JNum(Len(v.s))
         ELSE IF key = ZeroKey /\ v.s # <<>> THEN JStr(<<v.s[1]>>)
         ELSE JUndefined
    [] OTHER -> JUndefined

(***************************************************************************)
(* Response interpretation, lines 89-116.  An outcome is                   *)
(*   [success, url, message]: the URL captured, or the message thrown.     *)
(***************************************************************************)
Captured(url) == [success |-> TRUE, url |-> url, message |-> ""]

Thrown(msg) == [success |-> FALSE, url |-> <<>>, message |-> msg]

SyntaxErrorMessage == "Unexpected token in JSON"

TypeErrorMessage == "TypeError"

UrlNotFoundMessage == "Google Sheet URL not found in response"

InvalidFormatMessage == "Invalid response format"

NoJsonNoUrlMessage == "Response is not valid JSON and no Google Sheet URL found"

FailedToFetchMessage == "Failed to fetch"

BodyReadMessage == "Failed to read response body"

HttpErrorMessage == "HTTP error! status: "

(* The body of the inner try, lines 90-105.                                *)
InnerTry(responseText) ==
  LET p == JsonParse(responseText)
      responseData == p.val
  IN IF ~p.ok THEN Thrown(SyntaxErrorMessage)
     ELSE IF Truthy(responseData)
             /\ GreaterThanZero(Member(responseData, LengthKey))
       THEN LET first == Member(responseData, ZeroKey)
            IN IF first.t \in {"undefined", "null"} THEN Thrown(TypeErrorMessage)
               ELSE LET webhookInfo == Member(first, WebhookKey)
                    IN IF ~Truthy(webhookInfo) THEN Thrown(InvalidFormatMessage)
                       ELSE IF webhookInfo.t # "str" THEN Thrown(TypeErrorMessage)
                       ELSE LET urlMatch == UrlMatch(webhookInfo.s)
                            IN IF urlMatch.found THEN Captured(urlMatch.text)
                               ELSE Thrown(UrlNotFoundMessage)
     ELSE Thrown(InvalidFormatMessage)

(* The handler catch (jsonError), lines 106-116: it runs for every throw   *)
(* of the inner try, not only for a SyntaxError of JSON.parse.             *)
CatchJsonError(responseText) ==
  LET urlMatch == UrlMatch(responseText)
  IN IF urlMatch.found THEN Captured(urlMatch.text)
     ELSE Thrown(NoJsonNoUrlMessage)

InterpretResponse(responseText) ==
  LET r == InnerTry(responseText)
  IN IF r.success THEN r ELSE CatchJsonError(responseText)

(***************************************************************************)
(* Response bodies.                                                        *)
(***************************************************************************)
Quoted(t) == <<Quote>> \o t \o <<Quote>>

BodyChars == {"P", "A", "B", " "}

Texts == SeqsUpTo(BodyChars, MaxTextLen)

SentenceBody(t) == <<"A", " ">> \o t \o <<" ", "A">>

ArrayBody(t) ==
  <<"[", "{">> \o Quoted(WebhookKey) \o <<":">> \o Quoted(t) \o <<"}", "]">>

TwoFieldBody(t, u) ==
  <<"[", "{">> \o Quoted(<<"A">>) \o <<":">> \o Quoted(t) \o <<",">>
     \o Quoted(WebhookKey) \o <<":">> \o Quoted(u) \o <<"}", "]">>

LackingKeyBody(t) ==
  <<"[", "{">> \o Quoted(<<"A">>) \o <<":">> \o Quoted(t) \o <<"}", "]">>

ArrayLikeBody(t, u) ==
  <<"{">> \o Quoted(<<"A">>) \o <<":">> \o Quoted(t) \o <<",">>
     \o Quoted(LengthKey) \o <<":", "1", ",">>
     \o Quoted(ZeroKey) \o <<":", "{">> \o Quoted(WebhookKey) \o <<":">>
     \o Quoted(u) \o <<"}", "}">>

ObjectBody(t) ==
  <<"{">> \o Quoted(WebhookKey) \o <<":">> \o Quoted(t) \o <<"}">>

StringArrayBody(t) == <<"[">> \o Quoted(t) \o <<"]">>

SecondElementBody(t) ==
  <<"[", "n", ",", "{">> \o Quoted(WebhookKey) \o <<":">> \o Quoted(t)
     \o <<"}", "]">>

UnterminatedBody(t) ==
  <<"[", "{">> \o Quoted(WebhookKey) \o <<":">> \o Quoted(t) \o <<"}">>

NumberFieldBody(d) ==
  <<"[", "{">> \o Quoted(WebhookKey) \o <<":", d, "}", "]">>

FixedBodies ==
  { <<"[", "]">>, <<"n">>, <<"1">>, <<"[", "1", "]">>,
    NumberFieldBody("0"), NumberFieldBody("1"),
    <<"{">> \o Quoted(LengthKey) \o <<":", "1", "}">>,
    <<"{">> \o Quoted(LengthKey) \o <<":", "0", "}">> }

(* [{"Set Webhook Information": "link: <url>"}] of the specification.       *)
ExampleJsonBody ==
  <<"[", "{">> \o Quoted(WebhookKey) \o <<":", " ">>
     \o Quoted(<<"A", ":", " ", "P", "A", "B", "1">>) \o <<"}", "]">>

(* see <url> for results                                                   *)
ExampleTextBody == <<"A", " ", "P", "B", "A", "9", " ", "A">>

AllBodies ==
  Texts
  \cup {SentenceBody(t) : t \in Texts}
  \cup {ArrayBody(t) : t \in Texts}
  \cup {LackingKeyBody(t) : t \in Texts}
  \cup {ObjectBody(t) : t \in Texts}
  \cup {Quoted(t) : t \in Texts}
  \cup {StringArrayBody(t) : t \in Texts}
  \cup {SecondElementBody(t) : t \in Texts}
  \cup {UnterminatedBody(t) : t \in Texts}
  \cup {TwoFieldBody(t, u) : t \in Texts, u \in Texts}
  \cup {ArrayLikeBody(t, u) : t \in Texts, u \in Texts}
  \cup FixedBodies
  \cup {ExampleJsonBody, ExampleTextBody}

SampleBodies ==
  { ExampleJsonBody, ExampleTextBody,
    LackingKeyBody(<<"P", "A">>), LackingKeyBody(<<"A">>),
    ArrayBody(<<"A">>), <<"A">> }

Statuses == {200, 404, 500}

ResponseOk(status) == status \in 200..299

(***************************************************************************)
(* State.  requests holds the running invocations of handleSubmit, each    *)
(*   [pc, payload, status, body, error]                                    *)
(* pc "fetch": awaiting fetch (line 72); "text": awaiting response.text()  *)
(* (line 86); "alert": the blocking alert of line 122 is open.  payload is *)
(* the request body of lines 77-82, status and body the response (in scope *)
(* inside the try block only), error the caught error [message, status].   *)
(***************************************************************************)
Strs == { <<>>, <<" ">>, <<"a">>, <<" ", "a", " ">> }

NumberTexts ==
  { <<>>, <<"0">>, <<"1">>, <<"1", "0", "0">>, <<"1", "0", "1">>, <<"-", "1">> }

NoErrors == [f \in Fields |-> Undefined]

NoError == [message |-> "", status |-> 0]

Error(msg, status) == [message |-> msg, status |-> status]

NewRequest(data) ==
  [pc |-> "fetch", payload |-> data, status |-> 0, body |-> <<>>, error |-> NoError]

RemoveAt(seq, i) == SubSeq(seq, 1, i - 1) \o SubSeq(seq, i + 1, Len(seq))

(* window.alert blocks the event loop: no handler runs while it is open.   *)
AlertOpen == \E i \in 1..Len(requests) : requests[i].pc = "alert"

Init ==
  /\ formData = [searchTerms |-> <<>>, location |-> <<>>,
                 numberOfPlaces |-> DefaultPlaces]
  /\ errors = NoErrors
  /\ isSubmitting = FALSE
  /\ googleSheetUrl = EmptyText
  /\ showSuccess = FALSE
  /\ requests = <<>>

(***************************************************************************)
(* handleInputChange, lines 22-41.                                         *)
(***************************************************************************)
ErrorsClearedAll(field) == NoErrors

ErrorsKept(field) == errors

ErrorsAfterEdit(field) ==
  IF errors[field] # Undefined THEN [errors EXCEPT ![field] = Undefined]
  ELSE errors

SheetUrlKeptOnEdit == googleSheetUrl

SheetUrlAfterEdit == IF showSuccess THEN EmptyText ELSE googleSheetUrl

HandleInputChange(field, value) ==
  /\ ~AlertOpen
  /\ formData' = [formData EXCEPT ![field] = value]
  /\ errors' = ErrorsAfterEdit(field)
  /\ showSuccess' = (IF showSuccess THEN FALSE ELSE showSuccess)
  /\ googleSheetUrl' = SheetUrlAfterEdit
  /\ UNCHANGED <<isSubmitting, requests>>

ChangeSearchTerms == \E v \in Strs : HandleInputChange("searchTerms", v)

ChangeLocation == \E v \in Strs : HandleInputChange("location", v)

ChangeNumberOfPlaces ==
  \E t \in NumberTexts : HandleInputChange("numberOfPlaces", ParseIntOrZero(t))

(***************************************************************************)
(* validateForm, lines 43-60.                                              *)
(***************************************************************************)
NumberOutOfRangeExclusive(n) == n <= MinPlaces \/ n >= MaxPlaces

NumberOutOfRange(n) == n < MinPlaces \/ n > MaxPlaces

ValidateForm(data) ==
  [f \in Fields |->
     CASE f = "searchTerms" ->
            IF Trim(data.searchTerms) = <<>> THEN SearchTermsMessage ELSE Undefined
       [] f = "location" ->
            IF Trim(data.location) = <<>> THEN LocationMessage ELSE Undefined
       [] f = "numberOfPlaces" ->
            IF NumberOutOfRange(data.numberOfPlaces) THEN NumberMessage
            ELSE Undefined]

(***************************************************************************)
(* handleSubmit up to its first await, lines 62-83.  The submit event      *)
(* reaches the handler only through the submit button, which is disabled   *)
(* while isSubmitting (lines 276-279).                                     *)
(***************************************************************************)
SubmitAlwaysEnabled == TRUE

SubmitEnabled == ~isSubmitting

SuccessKeptOnSubmit == showSuccess

SuccessOnSubmit == FALSE

HandleSubmit ==
  /\ SubmitEnabled
  /\ ~AlertOpen
  /\ Len(requests) < MaxInflight
  /\ LET newErrors == ValidateForm(formData)
     IN /\ errors' = newErrors
        /\ IF newErrors # NoErrors
           THEN UNCHANGED <<isSubmitting, showSuccess, googleSheetUrl, requests>>
           ELSE /\ isSubmitting' = TRUE
                /\ showSuccess' = SuccessOnSubmit
                /\ googleSheetUrl' = EmptyText
                /\ requests' = Append(requests, NewRequest(formData))
  /\ UNCHANGED formData

(***************************************************************************)
(* The continuations of handleSubmit, lines 85-125.                        *)
(***************************************************************************)
Raise(i, msg, status) ==
  requests' = [requests EXCEPT ![i].pc = "alert", ![i].status = 0,
                               ![i].body = <<>>, ![i].error = Error(msg, status)]

FinallySkipped(i) ==
  /\ isSubmitting' = isSubmitting
  /\ requests' = RemoveAt(requests, i)

(* finally, lines 123-125; the invocation ends.                            *)
Finally(i) ==
  /\ isSubmitting' = FALSE
  /\ requests' = RemoveAt(requests, i)

(* fetch resolves, lines 72-85 and 117-122.                                *)
FetchResolved(i, status, body) ==
  /\ ~AlertOpen
  /\ requests[i].pc = "fetch"
  /\ IF ResponseOk(status)
     THEN requests' = [requests EXCEPT ![i].pc = "text", ![i].status = status,
                                       ![i].body = body]
     ELSE Raise(i, HttpErrorMessage, status)
  /\ UNCHANGED <<formData, errors, isSubmitting, googleSheetUrl, showSuccess>>

(* fetch rejects (network failure), lines 120-122.                         *)
FetchRejected(i) ==
  /\ ~AlertOpen
  /\ requests[i].pc = "fetch"
  /\ Raise(i, FailedToFetchMessage, 0)
  /\ UNCHANGED <<formData, errors, isSubmitting, googleSheetUrl, showSuccess>>

(* response.text() resolves, lines 86-116 and 120-125.                     *)
TextResolved(i) ==
  /\ ~AlertOpen
  /\ requests[i].pc = "text"
  /\ LET responseText == requests[i].body
         r == InterpretResponse(responseText)
     IN IF r.success
        THEN /\ googleSheetUrl' = r.url
             /\ showSuccess' = TRUE
             /\ Finally(i)
        ELSE /\ Raise(i, r.message, 0)
             /\ UNCHANGED <<isSubmitting, googleSheetUrl, showSuccess>>
  /\ UNCHANGED <<formData, errors>>

(* response.text() rejects, lines 86 and 120-122.                          *)
TextRejected(i) ==
  /\ ~AlertOpen
  /\ requests[i].pc = "text"
  /\ Raise(i, BodyReadMessage, 0)
  /\ UNCHANGED <<formData, errors, isSubmitting, googleSheetUrl, showSuccess>>

(* alert returns, lines 122-125.                                           *)
DismissAlert(i) ==
  /\ requests[i].pc = "alert"
  /\ Finally(i)
  /\ UNCHANGED <<formData, errors, googleSheetUrl, showSuccess>>

FetchSettles ==
  \E i \in 1..Len(requests) :
    \/ FetchRejected(i)
    \/ \E st \in Statuses, b \in SampleBodies : FetchResolved(i, st, b)

FetchSettlesAnyBody ==
  \E i \in 1..Len(requests) : \E b \in AllBodies : FetchResolved(i, 200, b)

TextSettles ==
  \E i \in 1..Len(requests) : TextRejected(i) \/ TextResolved(i)

AlertDismissed == \E i \in 1..Len(requests) : DismissAlert(i)

Next ==
  \/ ChangeSearchTerms
  \/ ChangeLocation
  \/ ChangeNumberOfPlaces
  \/ HandleSubmit
  \/ FetchSettles
  \/ TextSettles
  \/ AlertDismissed

Spec == Init /\ [][Next]_vars

(* The request completes and the alert is dismissed.                       *)
LiveSpec ==
  /\ Init
  /\ [][Next]_vars
  /\ WF_vars(FetchSettles)
  /\ WF_vars(TextSettles)
  /\ WF_vars(AlertDismissed)

(* Response interpretation alone: a valid form, every body of AllBodies.   *)
InitParse ==
  /\ formData = [searchTerms |-> <<"a">>, location |-> <<"a">>,
                 numberOfPlaces |-> DefaultPlaces]
  /\ errors = NoErrors
  /\ isSubmitting = FALSE
  /\ googleSheetUrl = EmptyText
  /\ showSuccess = FALSE
  /\ requests = <<>>

NextParse ==
  \/ HandleSubmit
  \/ FetchSettlesAnyBody
  \/ TextSettles
  \/ AlertDismissed

SpecParse == InitParse /\ [][NextParse]_vars

(***************************************************************************)
(* The statements of the specification, written from its words.            *)
(***************************************************************************)
FieldFails(f, data) ==
  CASE f = "searchTerms" -> Trim(data.searchTerms) = <<>>
    [] f = "location" -> Trim(data.location) = <<>>
    [] f = "numberOfPlaces" -> data.numberOfPlaces \notin 1..100

FormValid(data) == \A f \in Fields : ~FieldFails(f, data)

FieldValues(f) ==
  IF f = "numberOfPlaces" THEN {ParseIntOrZero(t) : t \in NumberTexts} ELSE Strs

HasExpectedShape(v) ==
  /\ v.t = "arr"
  /\ Len(v.items) > 0
  /\ v.items[1].t = "obj"
  /\ \E k \in 1..Len(v.items[1].keys) : v.items[1].keys[k] = WebhookKey

LacksExpectedShape(body) ==
  LET p == JsonParse(body) IN p.ok /\ ~HasExpectedShape(p.val)

(* Strategy 1: the field of the first element of the parsed sequence.      *)
StructuredStrategy(body) ==
  LET p == JsonParse(body)
  IN IF p.ok /\ HasExpectedShape(p.val)
     THEN LET info == Member(p.val.items[1], WebhookKey)
          IN IF info.t = "str" THEN UrlMatch(info.s) ELSE NoMatch
     ELSE NoMatch

(* Strategy 2: the raw text.                                               *)
RawTextStrategy(body) == UrlMatch(body)

OrderedStrategies(body) ==
  IF StructuredStrategy(body).found THEN StructuredStrategy(body)
  ELSE RawTextStrategy(body)

(* Invocation i leaves the await of response.text() in this step.          *)
LeavesText(i) ==
  /\ i \in 1..Len(requests)
  /\ requests[i].pc = "text"
  /\ requests' # requests

BodyWasRead(i) ==
  ~(Len(requests') = Len(requests) /\ requests'[i].error.message = BodyReadMessage)

EndsFailed(i) ==
  /\ Len(requests') = Len(requests)
  /\ requests'[i].pc = "alert"
  /\ ~showSuccess'
  /\ googleSheetUrl' = EmptyText

EndsSuccess(i, url) ==
  /\ requests' = RemoveAt(requests, i)
  /\ showSuccess'
  /\ googleSheetUrl' = url
  /\ ~isSubmitting'

(* C1: a submit issues the request and enters Submitting exactly when      *)
(* searchTerms and location are non-empty after trimming and               *)
(* numberOfPlaces is in [1, 100]; an invalid submit issues no request,     *)
(* does not enter Submitting and leaves a message for exactly the failing  *)
(* fields.                                                                 *)
C1_SubmitValidation ==
  [][ /\ Len(requests') > Len(requests) =>
           /\ FormValid(formData)
           /\ requests'[Len(requests')].payload = formData
      /\ (isSubmitting' /\ ~isSubmitting) => FormValid(formData)
      /\ (HandleSubmit /\ FormValid(formData)) =>
           /\ Len(requests') = Len(requests) + 1
           /\ isSubmitting'
           /\ errors' = NoErrors
      /\ (HandleSubmit /\ ~FormValid(formData)) =>
           /\ requests' = requests
           /\ ~isSubmitting'
           /\ \A f \in Fields :
                (errors'[f] # Undefined) <=> FieldFails(f, formData) ]_vars

(* An invalid submit has run: 101 is flagged, the valid fields are not.    *)
C1_Witness ==
  /\ formData.numberOfPlaces = 101
  /\ errors["numberOfPlaces"] = NumberMessage
  /\ Trim(formData.searchTerms) # <<>>
  /\ errors["searchTerms"] = Undefined
  /\ errors["location"] = LocationMessage
  /\ ~isSubmitting
  /\ requests = <<>>

(* C2: a success-status response whose body is valid JSON without the      *)
(* expected shape ends in Failed, whatever else the body contains.         *)
C2_ShapelessJsonFails ==
  [][ \A i \in 1..Len(requests) :
        (LeavesText(i) /\ LacksExpectedShape(requests[i].body)) => EndsFailed(i)
    ]_vars

(* C3: the outcome of interpreting a body that was read equals the ordered *)
(* application of the structured strategy and the raw-text strategy.       *)
C3_OrderedStrategies ==
  [][ \A i \in 1..Len(requests) :
        (LeavesText(i) /\ BodyWasRead(i)) =>
          LET exp == OrderedStrategies(requests[i].body)
          IN IF exp.found THEN EndsSuccess(i, exp.text) ELSE EndsFailed(i)
    ]_vars

(* The statement of C3 on the bodies that do not parse to a JSON object    *)
(* at top level.                                                           *)
C3_OnNonObjectBodies ==
  [][ \A i \in 1..Len(requests) :
        (LeavesText(i) /\ BodyWasRead(i)
           /\ ~(JsonParse(requests[i].body).ok
                /\ JsonParse(requests[i].body).val.t = "obj")) =>
          LET exp == OrderedStrategies(requests[i].body)
          IN IF exp.found THEN EndsSuccess(i, exp.text) ELSE EndsFailed(i)
    ]_vars

(* C4: a response with a non-success status ends in Failed, no URL         *)
(* captured and Success not shown, whatever the body and whatever was      *)
(* displayed before the submit.                                            *)
C4_HttpErrorFails ==
  /\ [](\A i \in 1..Len(requests) :
          requests[i].error.message = HttpErrorMessage =>
            /\ requests[i].pc = "alert"
            /\ ~showSuccess
            /\ googleSheetUrl = EmptyText)
  /\ [][ \A i \in 1..Len(requests) :
           /\ \A st \in Statuses, b \in SampleBodies :
                (FetchResolved(i, st, b) /\ st \notin 200..299) =>
                  /\ EndsFailed(i)
                  /\ requests'[i].error = Error(HttpErrorMessage, st)
           /\ (requests[i].error.message = HttpErrorMessage
                 /\ requests' # requests) =>
                /\ requests' = RemoveAt(requests, i)
                /\ ~showSuccess'
                /\ googleSheetUrl' = EmptyText
                /\ ~isSubmitting' ]_vars

(* Status 500: the alert is open, the form still holds what was sent.      *)
C4_Witness ==
  /\ Len(requests) = 1
  /\ requests[1].pc = "alert"
  /\ requests[1].error = Error(HttpErrorMessage, 500)
  /\ requests[1].payload = formData
  /\ ~showSuccess

(* C5: Submitting always ends in a ready state with the submit control     *)
(* enabled, given that the request completes and the alert is dismissed.   *)
C5_SubmittingEnds ==
  isSubmitting ~> (~isSubmitting /\ requests = <<>> /\ SubmitEnabled)

(* Submitting with the alert of a failed body read open.                   *)
C5_Witness ==
  /\ isSubmitting
  /\ Len(requests) = 1
  /\ requests[1].pc = "alert"
  /\ requests[1].error.message = BodyReadMessage

(* C6: at most one request is outstanding, and the submit control is       *)
(* disabled for as long as it is.                                          *)
C6_SingleOutstandingRequest ==
  /\ Len(requests) <= 1
  /\ (Len(requests) = 1 => isSubmitting)

(* A request in flight whose form was edited after it was sent.            *)
C6_Witness ==
  /\ Len(requests) = 1
  /\ requests[1].pc = "text"
  /\ requests[1].payload # formData

(* C7: an edit of field f changes only f's value, f's error entry and,     *)
(* when Success is displayed, the Success state and the URL.               *)
C7_EditFrame ==
  [][ \A f \in Fields :
        (\E v \in FieldValues(f) : HandleInputChange(f, v)) =>
          /\ \A g \in Fields \ {f} :
               formData'[g] = formData[g] /\ errors'[g] = errors[g]
          /\ errors'[f] = Undefined
          /\ isSubmitting' = isSubmitting
          /\ requests' = requests
          /\ IF showSuccess
             THEN ~showSuccess' /\ googleSheetUrl' = EmptyText
             ELSE ~showSuccess' /\ googleSheetUrl' = googleSheetUrl ]_vars

(* The error of searchTerms was cleared by an edit to a value that still   *)
(* fails, the error of location is intact.                                 *)
C7_Witness ==
  /\ Trim(formData.searchTerms) = <<>>
  /\ errors["searchTerms"] = Undefined
  /\ errors["location"] = LocationMessage

(* C8: a field carries an error message only while its current value       *)
(* fails validation.                                                       *)
C8_ErrorsOnlyOnFailingFields ==
  \A f \in Fields : errors[f] # Undefined => FieldFails(f, formData)

(* numberOfPlaces was flagged and then edited to a valid value, the        *)
(* flagged searchTerms is unchanged.                                       *)
C8_Witness ==
  /\ errors["searchTerms"] = SearchTermsMessage
  /\ errors["numberOfPlaces"] = Undefined
  /\ formData.numberOfPlaces = 100
  /\ errors["location"] = Undefined
  /\ Trim(formData.location) = <<>>

(* C9: Submitting and Success are never both active, and a URL is held     *)
(* if and only if Success is shown.                                        *)
C9_StatusExclusive ==
  /\ ~(isSubmitting /\ showSuccess)
  /\ (googleSheetUrl # EmptyText) <=> showSuccess

(* Success with the URL of the structured example.                         *)
C9_Witness ==
  /\ showSuccess
  /\ googleSheetUrl = <<"P", "A", "B", "1">>
  /\ ~isSubmitting

(* C10: when Success becomes displayed the form holds the values that were *)
(* sent, is valid and carries no error.                                    *)
C10_SuccessMatchesForm ==
  [][ (showSuccess' /\ ~showSuccess) =>
        /\ Len(requests) = 1
        /\ formData' = requests[1].payload
        /\ FormValid(formData')
        /\ errors' = NoErrors ]_vars

====
